---- MODULE Spec2Model ----
(***************************************************************************)
(* Model of PlatformBridgeBase (src/src/platform-bridges/PlatformBridgeBase.js): *)
(* the private registry of promise decorators (#promiseDecorators) and the *)
(* three advertisement state setters with their change events, the default *)
(* ad methods, the page-visibility listener, the local key-value storage   *)
(* the capability methods that reject by default and the device type.     *)
(***************************************************************************)
EXTENDS FiniteSets, Integers, Naturals, Sequences, TLC

(***************************************************************************)
(* Bounds of the model.                                                    *)
(***************************************************************************)
\* number of `new PromiseDecorator()` the model lets the bridge execute
MaxOps == 3
\* the counter of resolve()/reject() invocations on one decorator saturates here
SettleCap == 2
\* number of events the bridge may emit
MaxEvents == 3
\* number of handlers registered for one event name at a time
MaxHandlers == 2
\* length of the key list of a batch storage call
MaxBatch == 2
\* number of tokens of a user-agent string
MaxTokens == 3
\* number of operations begun, operations settled, events emitted and keys stored, taken
\* together, where registry calls are mixed with the other calls
MaxWork == 3

\* action names used as keys of #promiseDecorators
Keys == {"k1", "k2"}
\* data / error payloads handed to _resolvePromiseDecorator / _rejectPromiseDecorator
Payloads == {"a", "b"}

\* `undefined`: the value of a missing property of #promiseDecorators
Undefined == 0
\* `null`: the initial value of the ad state fields
Null == "null"
\* no payload
NoArg == "-"

PromiseIds == 1..MaxOps

\* INTERSTITIAL_STATE.FAILED / REWARDED_STATE.FAILED / BANNER_STATE.FAILED
FAILED == "FAILED"
\* BANNER_STATE.HIDDEN
HIDDEN == "HIDDEN"
\* the states handed to the setters
AdStates == {"LOADING", HIDDEN, FAILED}

\* EVENT_NAME.*
INTERSTITIAL_STATE_CHANGED == "INTERSTITIAL_STATE_CHANGED"
REWARDED_STATE_CHANGED == "REWARDED_STATE_CHANGED"
BANNER_STATE_CHANGED == "BANNER_STATE_CHANGED"
VISIBILITY_STATE_CHANGED == "VISIBILITY_STATE_CHANGED"

\* VISIBILITY_STATE.*
VISIBILITY_STATE_VISIBLE == "VISIBLE"
VISIBILITY_STATE_HIDDEN == "HIDDEN"

\* the values of document.visibilityState
DocumentVisibilityStates == {"visible", "hidden", "prerender"}

VARIABLES
    promiseDecorators,  \* #promiseDecorators: action name -> decorator (Undefined if the property is missing)
    promises,           \* the PromiseDecorator objects created so far: status and settled value of each promise
    nextId,             \* identity of the next PromiseDecorator to be constructed
    createdFor,         \* history: the action name each decorator was created for
    supersededBy,       \* history: the decorator that replaced this one in the registry while it was pending
    settleCalls,        \* history: number of resolve()/reject() invocations on each decorator
    lastOp,             \* history: the last create/resolve/reject call made on each action name
    lastCreated,        \* history: the decorator returned by the most recent create on each action name
    lastEffect,         \* history: the last call on each action name that changed the registry
    lastCall,           \* history: the most recent registry call, what it found and what it did
    lastAdCall,         \* history: the most recent ad state setter call, what it found and what it did
    _interstitialState,
    _rewardedState,
    _bannerState,
    events,             \* the events emitted so far: <<name, payload>>
    lastEmit,           \* history: the event emitted by the most recent call and the value its
                        \* getter returned to a handler during the emission
    lastMethod,         \* history: the public method called most recently ("none" for the others)
    _visibilityState,
    documentVisibility, \* document.visibilityState
    listeners,          \* the event channel: event name -> the handlers registered for it
    registrations,      \* history: event name -> the registered handlers in registration order
    pass,               \* the emit call in progress: the handlers it found, those it has invoked
                        \* and what the invoked handlers registered and removed meanwhile
    _localStorage,      \* what the constructor kept of window.localStorage
    items,              \* the contents of window.localStorage: key -> stored text
    written,            \* history: the value most recently written under each key and not deleted since
    lastStorage,        \* history: the most recent storage call, its arguments and its outcome
    lastReturn,         \* history: the most recent call of a capability method or of the deviceType
                        \* getter and what it returned
    navigator           \* window.navigator: its userAgent, a sequence of tokens

registryVars == <<promiseDecorators, promises, nextId, createdFor, supersededBy,
                  settleCalls, lastOp, lastCreated, lastEffect>>
adVars == <<_interstitialState, _rewardedState, _bannerState, events>>
visibilityVars == <<_visibilityState, documentVisibility>>
channelVars == <<listeners, registrations, pass>>
storageVars == <<_localStorage, items, written, lastStorage>>
vars == <<registryVars, lastCall, adVars, lastAdCall, lastEmit, lastMethod, visibilityVars,
          channelVars, storageVars, lastReturn, navigator>>

(***************************************************************************)
(* PromiseDecorator (src/common/PromiseDecorator): a promise together with *)
(* its resolve/reject pair.  A promise settles at most once.               *)
(***************************************************************************)
NewPromiseDecorator == [status |-> "pending", value |-> NoArg]

NotConstructed == [status |-> "none", value |-> NoArg]

PromiseResolve(pd, data) ==
    IF pd.status = "pending" THEN [status |-> "fulfilled", value |-> data] ELSE pd

PromiseReject(pd, error) ==
    IF pd.status = "pending" THEN [status |-> "rejected", value |-> error] ELSE pd

(***************************************************************************)
(* The registry #promiseDecorators.                                        *)
(***************************************************************************)
\* this.#promiseDecorators[actionName] = promiseDecorator
RegistryKeepFirst(reg, actionName, pd) ==
    IF reg[actionName] # Undefined THEN reg ELSE [reg EXCEPT ![actionName] = pd]

RegistrySet(reg, actionName, pd) == [reg EXCEPT ![actionName] = pd]

\* delete this.#promiseDecorators[id]
RegistryDeleteNothing(reg, id) == reg

RegistryDeleteAll(reg, id) == [k \in Keys |-> Undefined]

RegistryDelete(reg, id) == [reg EXCEPT ![id] = Undefined]

\* this.#promiseDecorators[actionName]
_getPromiseDecorator(actionName) == promiseDecorators[actionName]

\* if (this.#promiseDecorators[id])
PendingAlways(reg, id) == TRUE

Pending(reg, id) == reg[id] # Undefined

\* the last call was not an ad state setter
NoAdCall == [op |-> "none", state |-> NoArg, before |-> NoArg, emitted |-> 0]

\* the last call was not a registry call
NoCall ==
    [op |-> "none", key |-> NoArg, arg |-> NoArg, late |-> FALSE, before |-> Undefined,
     settled |-> {}, ret |-> Undefined, threw |-> FALSE]

\* late: the caller is the native callback of an operation that is no longer the entry
Call(op, key, arg, late, before, settled, ret, threw) ==
    [op |-> op, key |-> key, arg |-> arg, late |-> late, before |-> before,
     settled |-> settled, ret |-> ret, threw |-> threw]

Bump(n) == IF n < SettleCap THEN n + 1 ELSE n

\* _createPromiseDecorator(actionName)
_createPromiseDecorator(actionName) ==
    /\ nextId <= MaxOps
    /\ LET promiseDecorator == nextId
       IN /\ promises' = [promises EXCEPT ![promiseDecorator] = NewPromiseDecorator]
          /\ promiseDecorators' = RegistrySet(promiseDecorators, actionName, promiseDecorator)
          /\ nextId' = nextId + 1
          /\ createdFor' = [createdFor EXCEPT ![promiseDecorator] = actionName]
          /\ supersededBy' = IF lastOp[actionName] = "create"
                             THEN [supersededBy EXCEPT ![lastCreated[actionName]] = promiseDecorator]
                             ELSE supersededBy
          /\ lastOp' = [lastOp EXCEPT ![actionName] = "create"]
          /\ lastCreated' = [lastCreated EXCEPT ![actionName] = promiseDecorator]
          /\ lastEffect' = [lastEffect EXCEPT ![actionName] = "create"]
          /\ lastCall' = Call("create", actionName, NoArg, FALSE, promiseDecorators[actionName],
                              {}, promiseDecorator, FALSE)
    /\ lastAdCall' = NoAdCall
    /\ UNCHANGED <<settleCalls, adVars>>

\* the operations whose native callback can call back on action name id:
\* those begun under id, or none of them (Undefined)
Origins(id) == {Undefined} \cup {p \in PromiseIds : p < nextId /\ createdFor[p] = id}

\* the callback belongs to an operation whose entry was cleared or overwritten
IsLate(origin, id) == origin # Undefined /\ origin # promiseDecorators[id]

\* _resolvePromiseDecorator(id, data), called from the native callback of operation origin.
\* Reading .resolve of a missing property throws a TypeError before anything is changed.
_resolvePromiseDecorator(id, data, origin) ==
    LET before == promiseDecorators[id]
    IN /\ IF Pending(promiseDecorators, id)
          THEN IF before = Undefined
               THEN /\ UNCHANGED <<promises, settleCalls, promiseDecorators, lastEffect>>
                    /\ lastCall' = Call("resolve", id, data, IsLate(origin, id), before, {},
                                        Undefined, TRUE)
               ELSE /\ promises' = [promises EXCEPT ![before] = PromiseResolve(@, data)]
                    /\ settleCalls' = [settleCalls EXCEPT ![before] = Bump(@)]
                    /\ promiseDecorators' = RegistryDelete(promiseDecorators, id)
                    /\ lastEffect' = [lastEffect EXCEPT ![id] = "settle"]
                    /\ lastCall' = Call("resolve", id, data, IsLate(origin, id), before, {before},
                                        Undefined, FALSE)
          ELSE /\ UNCHANGED <<promises, settleCalls, promiseDecorators, lastEffect>>
               /\ lastCall' = Call("resolve", id, data, IsLate(origin, id), before, {},
                                   Undefined, FALSE)
       /\ lastOp' = [lastOp EXCEPT ![id] = "resolve"]
       /\ lastAdCall' = NoAdCall
       /\ UNCHANGED <<nextId, createdFor, supersededBy, lastCreated, adVars>>

\* _rejectPromiseDecorator with the decorator's resolve() called in place of reject()
RejectCallsResolve(id, error, origin) ==
    LET before == promiseDecorators[id]
    IN /\ IF Pending(promiseDecorators, id)
          THEN IF before = Undefined
               THEN /\ UNCHANGED <<promises, settleCalls, promiseDecorators, lastEffect>>
                    /\ lastCall' = Call("reject", id, error, IsLate(origin, id), before, {},
                                        Undefined, TRUE)
               ELSE /\ promises' = [promises EXCEPT ![before] = PromiseResolve(@, error)]
                    /\ settleCalls' = [settleCalls EXCEPT ![before] = Bump(@)]
                    /\ promiseDecorators' = RegistryDelete(promiseDecorators, id)
                    /\ lastEffect' = [lastEffect EXCEPT ![id] = "settle"]
                    /\ lastCall' = Call("reject", id, error, IsLate(origin, id), before, {before},
                                        Undefined, FALSE)
          ELSE /\ UNCHANGED <<promises, settleCalls, promiseDecorators, lastEffect>>
               /\ lastCall' = Call("reject", id, error, IsLate(origin, id), before, {},
                                   Undefined, FALSE)
       /\ lastOp' = [lastOp EXCEPT ![id] = "reject"]
       /\ lastAdCall' = NoAdCall
       /\ UNCHANGED <<nextId, createdFor, supersededBy, lastCreated, adVars>>

\* _rejectPromiseDecorator(id, error), called from the native callback of operation origin.
\* Reading .reject of a missing property throws a TypeError before anything is changed.
_rejectPromiseDecorator(id, error, origin) ==
    LET before == promiseDecorators[id]
    IN /\ IF Pending(promiseDecorators, id)
          THEN IF before = Undefined
               THEN /\ UNCHANGED <<promises, settleCalls, promiseDecorators, lastEffect>>
                    /\ lastCall' = Call("reject", id, error, IsLate(origin, id), before, {},
                                        Undefined, TRUE)
               ELSE /\ promises' = [promises EXCEPT ![before] = PromiseReject(@, error)]
                    /\ settleCalls' = [settleCalls EXCEPT ![before] = Bump(@)]
                    /\ promiseDecorators' = RegistryDelete(promiseDecorators, id)
                    /\ lastEffect' = [lastEffect EXCEPT ![id] = "settle"]
                    /\ lastCall' = Call("reject", id, error, IsLate(origin, id), before, {before},
                                        Undefined, FALSE)
          ELSE /\ UNCHANGED <<promises, settleCalls, promiseDecorators, lastEffect>>
               /\ lastCall' = Call("reject", id, error, IsLate(origin, id), before, {},
                                   Undefined, FALSE)
       /\ lastOp' = [lastOp EXCEPT ![id] = "reject"]
       /\ lastAdCall' = NoAdCall
       /\ UNCHANGED <<nextId, createdFor, supersededBy, lastCreated, adVars>>

(***************************************************************************)
(* The ad state setters and the events they emit.                          *)
(***************************************************************************)
\* this.emit(name, payload)
Emit(log, name, payload) == Append(log, <<name, payload>>)

\* the early return of the setters: current === state && state !== FAILED
SameStateIgnoringFailed(current, state) == current = state

SameOrNeverSet(current, state) == (current = state /\ state # FAILED) \/ current = Null

SameAndNotFailed(current, state) == current = state /\ state # FAILED

\* the last call emitted nothing
NoEmit == [name |-> "none", payload |-> NoArg, getter |-> NoArg]

\* an emission of name with payload, during which the getter of the state returns getter
Emitted(name, payload, getter) == [name |-> name, payload |-> payload, getter |-> getter]

\* the state field is assigned before this.emit is called: a handler reading the getter
\* during the emission finds the assigned value
EmitBeforeAssign(old, assigned) == old

AssignedBeforeEmit(old, assigned) == assigned

AdCall(op, state, before, emitted) ==
    [op |-> op, state |-> state, before |-> before, emitted |-> emitted]

\* _setInterstitialState(state)
_setInterstitialState(state) ==
    /\ SameAndNotFailed(_interstitialState, state) \/ Len(events) < MaxEvents
    /\ IF SameAndNotFailed(_interstitialState, state)
       THEN /\ UNCHANGED <<_interstitialState, events>>
            /\ lastEmit' = NoEmit
            /\ lastAdCall' = AdCall("_setInterstitialState", state, _interstitialState, 0)
       ELSE /\ _interstitialState' = state
            /\ events' = Emit(events, INTERSTITIAL_STATE_CHANGED, _interstitialState')
            /\ lastEmit' = Emitted(INTERSTITIAL_STATE_CHANGED, _interstitialState', AssignedBeforeEmit(_interstitialState, _interstitialState'))
            /\ lastAdCall' = AdCall("_setInterstitialState", state, _interstitialState, 1)
    /\ lastCall' = NoCall
    /\ UNCHANGED <<registryVars, _rewardedState, _bannerState>>

\* _setRewardedState(state)
_setRewardedState(state) ==
    /\ SameAndNotFailed(_rewardedState, state) \/ Len(events) < MaxEvents
    /\ IF SameAndNotFailed(_rewardedState, state)
       THEN /\ UNCHANGED <<_rewardedState, events>>
            /\ lastEmit' = NoEmit
            /\ lastAdCall' = AdCall("_setRewardedState", state, _rewardedState, 0)
       ELSE /\ _rewardedState' = state
            /\ events' = Emit(events, REWARDED_STATE_CHANGED, _rewardedState')
            /\ lastEmit' = Emitted(REWARDED_STATE_CHANGED, _rewardedState', AssignedBeforeEmit(_rewardedState, _rewardedState'))
            /\ lastAdCall' = AdCall("_setRewardedState", state, _rewardedState, 1)
    /\ lastCall' = NoCall
    /\ UNCHANGED <<registryVars, _interstitialState, _bannerState>>

\* _setBannerState(state)
_setBannerState(state) ==
    /\ SameAndNotFailed(_bannerState, state) \/ Len(events) < MaxEvents
    /\ IF SameAndNotFailed(_bannerState, state)
       THEN /\ UNCHANGED <<_bannerState, events>>
            /\ lastEmit' = NoEmit
            /\ lastAdCall' = AdCall("_setBannerState", state, _bannerState, 0)
       ELSE /\ _bannerState' = state
            /\ events' = Emit(events, BANNER_STATE_CHANGED, _bannerState')
            /\ lastEmit' = Emitted(BANNER_STATE_CHANGED, _bannerState', AssignedBeforeEmit(_bannerState, _bannerState'))
            /\ lastAdCall' = AdCall("_setBannerState", state, _bannerState, 1)
    /\ lastCall' = NoCall
    /\ UNCHANGED <<registryVars, _interstitialState, _rewardedState>>

(***************************************************************************)
(* The default ad methods.                                                 *)
(***************************************************************************)
\* showBanner()
showBannerSetsHidden == _setBannerState(HIDDEN)

showBanner == _setBannerState(FAILED)

\* hideBanner()
hideBannerSetsFailed == _setBannerState(FAILED)

hideBanner == _setBannerState(HIDDEN)

\* showInterstitial()
showInterstitial == _setInterstitialState(FAILED)

\* showRewarded()
showRewarded == _setRewardedState(FAILED)

(***************************************************************************)
(* The page-visibility listener installed by the constructor.              *)
(***************************************************************************)
\* document.visibilityState === 'visible' ? VISIBLE : HIDDEN
VisibilityOfHiddenOnly(visibilityState) ==
    IF visibilityState = "hidden" THEN VISIBILITY_STATE_HIDDEN ELSE VISIBILITY_STATE_VISIBLE

VisibilityOf(visibilityState) ==
    IF visibilityState = "visible" THEN VISIBILITY_STATE_VISIBLE ELSE VISIBILITY_STATE_HIDDEN

\* the document changes its visibility to visibilityState and fires 'visibilitychange'
OnVisibilityChange(visibilityState) ==
    /\ Len(events) < MaxEvents
    /\ visibilityState # documentVisibility
    /\ documentVisibility' = visibilityState
    /\ _visibilityState' = VisibilityOf(documentVisibility')
    /\ events' = Emit(events, VISIBILITY_STATE_CHANGED, _visibilityState')
    /\ lastEmit' = Emitted(VISIBILITY_STATE_CHANGED, _visibilityState',
                           AssignedBeforeEmit(_visibilityState, _visibilityState'))
    /\ lastCall' = NoCall
    /\ lastAdCall' = NoAdCall
    /\ UNCHANGED <<registryVars, _interstitialState, _rewardedState, _bannerState>>

(***************************************************************************)
(* The event channel mixed into the bridge (EventLite.mixin): on, off and  *)
(* emit.  Handlers are code of the game: an invoked handler may register   *)
(* or remove a handler before it returns.                                  *)
(***************************************************************************)
\* the event names handlers are registered for
ChannelNames == {INTERSTITIAL_STATE_CHANGED, BANNER_STATE_CHANGED}

\* the handlers of the game
Handlers == {"h1", "h2"}

\* no emit call is in progress
NoPass ==
    [name |-> "none", payload |-> NoArg, snapshot |-> <<>>, expected |-> <<>>, pos |-> 0,
     invoked |-> <<>>, added |-> {}, removed |-> {}]

Without(handlers, handler) == SelectSeq(handlers, LAMBDA h : h # handler)

Range(seq) == {seq[i] : i \in 1..Len(seq)}

\* on(name, handler)
ChannelOnFirst(ls, name, handler) == [ls EXCEPT ![name] = <<handler>> \o @]

ChannelOn(ls, name, handler) == [ls EXCEPT ![name] = Append(@, handler)]

\* off(name, handler)
ChannelOff(ls, name, handler) == [ls EXCEPT ![name] = Without(@, handler)]

\* the handlers an emit call in progress works through: those registered when it began
LiveHandlers(p, ls) == ls[p.name]

PassHandlers(p, ls) == p.snapshot

\* the game calls on(name, handler) outside of any emission
On(name, handler) ==
    /\ pass = NoPass
    /\ Len(listeners[name]) < MaxHandlers
    /\ listeners' = ChannelOn(listeners, name, handler)
    /\ registrations' = [registrations EXCEPT ![name] = Append(@, handler)]
    /\ UNCHANGED pass

\* the game calls off(name, handler) outside of any emission
Off(name, handler) ==
    /\ pass = NoPass
    /\ listeners' = ChannelOff(listeners, name, handler)
    /\ registrations' = [registrations EXCEPT ![name] = Without(@, handler)]
    /\ UNCHANGED pass

\* emit(name, payload) is called
EmitBegin(name, payload) ==
    /\ pass = NoPass
    /\ Len(events) < MaxEvents
    /\ events' = Emit(events, name, payload)
    /\ pass' = [name |-> name, payload |-> payload, snapshot |-> listeners[name],
                expected |-> registrations[name], pos |-> 0, invoked |-> <<>>,
                added |-> {}, removed |-> {}]
    /\ UNCHANGED <<listeners, registrations>>

\* the emit call in progress invokes its next handler, which returns without touching the
\* channel
InvokePlain ==
    /\ pass # NoPass
    /\ pass.pos < Len(PassHandlers(pass, listeners))
    /\ pass' = [pass EXCEPT !.pos = @ + 1,
                            !.invoked = Append(@, <<PassHandlers(pass, listeners)[pass.pos + 1],
                                                    pass.payload>>)]
    /\ UNCHANGED <<listeners, registrations, events>>

\* the emit call in progress invokes its next handler, which calls on(name, handler)
InvokeRegistering(name, handler) ==
    /\ pass # NoPass
    /\ pass.pos < Len(PassHandlers(pass, listeners))
    /\ Len(listeners[name]) < MaxHandlers
    /\ listeners' = ChannelOn(listeners, name, handler)
    /\ registrations' = [registrations EXCEPT ![name] = Append(@, handler)]
    /\ pass' = [pass EXCEPT !.pos = @ + 1,
                            !.invoked = Append(@, <<PassHandlers(pass, listeners)[pass.pos + 1],
                                                    pass.payload>>),
                            !.added = IF name = pass.name THEN @ \cup {handler} ELSE @]
    /\ UNCHANGED events

\* the emit call in progress invokes its next handler, which calls off(name, handler)
InvokeRemoving(name, handler) ==
    /\ pass # NoPass
    /\ pass.pos < Len(PassHandlers(pass, listeners))
    /\ listeners' = ChannelOff(listeners, name, handler)
    /\ registrations' = [registrations EXCEPT ![name] = Without(@, handler)]
    /\ pass' = [pass EXCEPT !.pos = @ + 1,
                            !.invoked = Append(@, <<PassHandlers(pass, listeners)[pass.pos + 1],
                                                    pass.payload>>),
                            !.removed = IF name = pass.name THEN @ \cup {handler} ELSE @]
    /\ UNCHANGED events

\* the emit call in progress has no handler left and returns
EmitReturn ==
    /\ pass # NoPass
    /\ pass.pos >= Len(PassHandlers(pass, listeners))
    /\ pass' = NoPass
    /\ UNCHANGED <<listeners, registrations, events>>

(***************************************************************************)
(* Storage: window.localStorage behind getDataFromStorage,                 *)
(* setDataToStorage and deleteDataFromStorage.                              *)
(***************************************************************************)
\* STORAGE_TYPE.*
LOCAL_STORAGE == "local_storage"
PLATFORM_INTERNAL == "platform_internal"
\* the storage kinds handed to the storage methods
StorageTypes == {LOCAL_STORAGE, PLATFORM_INTERNAL, "unknown"}
\* ERROR.STORAGE_NOT_SUPPORTED
STORAGE_NOT_SUPPORTED == "STORAGE_NOT_SUPPORTED"

\* a Storage object
StorageObject == "Storage"
\* what _localStorage holds after the constructor: the Storage object, null (the field's
\* initial value, kept when reading window.localStorage throws, or window.localStorage
\* itself is null) or undefined (window.localStorage is not defined)
LocalStorageHandles == {StorageObject, "null", "undefined"}

\* if (this._localStorage)
Truthy(handle) == handle = StorageObject

\* keys handed to the storage methods
StorageKeys == {"k1", "k2"}

\* JavaScript values: typeof and the value
JsString(text) == [type |-> "string", of |-> text]
JsNumber1 == [type |-> "number", of |-> "1"]
JsObjectA1 == [type |-> "object", of |-> "{a:1}"]
JsNull == [type |-> "object", of |-> "null"]
\* the exception JSON.parse throws
SyntaxError == [type |-> "thrown", of |-> "SyntaxError"]
\* history: no value written
NotWritten == [type |-> "none", of |-> "-"]

typeof(value) == value.type

\* the values handed to setDataToStorage
StorableValues == {JsObjectA1, JsString("1")}

\* JSON.stringify of a value whose typeof is 'object'
JSONstringify(value) ==
    CASE value = JsObjectA1 -> "{\"a\":1}"
      [] value = JsNull -> "null"

\* the conversion to text that Storage.setItem applies to its value argument
JsToString(value) ==
    CASE typeof(value) = "string" -> value.of
      [] value = JsNumber1 -> "1"

\* JSON.parse: the value a text denotes, a SyntaxError for any other text
JSONparse(text) ==
    CASE text = "{\"a\":1}" -> JsObjectA1
      [] text = "1" -> JsNumber1
      [] text = "null" -> JsNull
      [] OTHER -> SyntaxError

EmptyStore == [k \in {} |-> ""]
\* what window.localStorage holds when the bridge is constructed: nothing, or a text
\* that an earlier session or other code of the page left there
StoredBefore == {EmptyStore, [k \in {"k2"} |-> "abc"]}

\* Storage.getItem: the text stored under key, null if there is none
getItem(store, key) == IF key \in DOMAIN store THEN JsString(store[key]) ELSE JsNull

setItemKeepsFirst(store, key, text) ==
    [k \in DOMAIN store \cup {key} |-> IF k \in DOMAIN store THEN store[k] ELSE text]

\* Storage.setItem
setItem(store, key, text) ==
    [k \in DOMAIN store \cup {key} |-> IF k = key THEN text ELSE store[k]]

\* Storage.removeItem
removeItem(store, key) == [k \in DOMAIN store \ {key} |-> store[k]]

RethrowParseError(value, e) == e

\* catch (e) { }: the value read is kept
CatchParseError(value, e) == value

_getDataFromLocalStorage(store, key) ==
    LET value == getItem(store, key)
    IN  IF typeof(value) = "string"
        THEN LET parsed == JSONparse(value.of)
             IN  IF parsed = SyntaxError THEN CatchParseError(value, parsed) ELSE parsed
        ELSE value

_setDataToLocalStorage(store, key, value) ==
    setItem(store, key,
            IF typeof(value) = "object" THEN JSONstringify(value) ELSE JsToString(value))

_deleteDataFromLocalStorage(store, key) == removeItem(store, key)

\* key.forEach((k, i) => this._setDataToLocalStorage(k, value[i])), from index i on
RECURSIVE SetEach(_, _, _, _)
SetEach(store, key, value, i) ==
    IF i > Len(key) THEN store
    ELSE SetEach(_setDataToLocalStorage(store, key[i], value[i]), key, value, i + 1)

\* key.forEach(k => this._deleteDataFromLocalStorage(k)), from index i on
RECURSIVE DeleteEach(_, _, _)
DeleteEach(store, key, i) ==
    IF i > Len(key) THEN store
    ELSE DeleteEach(_deleteDataFromLocalStorage(store, key[i]), key, i + 1)

\* what a storage method hands back
PromiseResolved(result) == [outcome |-> "resolved", reason |-> NoArg, result |-> result]
PromiseRejected(reason) == [outcome |-> "rejected", reason |-> reason, result |-> <<>>]
Thrown(e) == [outcome |-> "threw", reason |-> e.of, result |-> <<>>]

NoStorageCall ==
    [op |-> "none", isArray |-> FALSE, key |-> <<>>, value |-> <<>>, storageType |-> NoArg,
     outcome |-> "none", reason |-> NoArg, result |-> <<>>, supported |-> FALSE]

\* a call of a storage method: a single key or value is the one element of key or value
StorageCall(op, isArray, key, value, storageType, returned) ==
    [op |-> op, isArray |-> isArray, key |-> key, value |-> value, storageType |-> storageType,
     outcome |-> returned.outcome, reason |-> returned.reason, result |-> returned.result,
     supported |-> FALSE]

\* the position of the last occurrence of k in a key list
LastIndex(key, k) ==
    CHOOSE i \in 1..Len(key) : key[i] = k /\ \A j \in (i + 1)..Len(key) : key[j] # k

isStorageSupported(storageType) ==
    CASE storageType = LOCAL_STORAGE -> _localStorage # "null"
      [] storageType = PLATFORM_INTERNAL -> FALSE
      [] OTHER -> FALSE

isStorageAvailable(storageType) == isStorageSupported(storageType)

getDataFromStorage(isArray, key, storageType) ==
    /\ lastStorage' =
          StorageCall("get", isArray, key, <<>>, storageType,
              IF storageType = LOCAL_STORAGE
              THEN IF Truthy(_localStorage)
                   THEN LET values == [i \in 1..Len(key) |->
                                          _getDataFromLocalStorage(items, key[i])]
                        IN  IF \E i \in 1..Len(key) : typeof(values[i]) = "thrown"
                            THEN Thrown(SyntaxError)
                            ELSE PromiseResolved(values)
                   ELSE PromiseRejected(STORAGE_NOT_SUPPORTED)
              ELSE PromiseRejected(STORAGE_NOT_SUPPORTED))
    /\ UNCHANGED <<_localStorage, items, written>>

setDataToStorage(isArray, key, value, storageType) ==
    /\ IF storageType = LOCAL_STORAGE /\ Truthy(_localStorage)
       THEN /\ items' = SetEach(items, key, value, 1)
            /\ written' = [k \in StorageKeys |->
                              IF \E i \in 1..Len(key) : key[i] = k
                              THEN value[LastIndex(key, k)] ELSE written[k]]
            /\ lastStorage' = StorageCall("set", isArray, key, value, storageType,
                                          PromiseResolved(<<>>))
       ELSE /\ lastStorage' = StorageCall("set", isArray, key, value, storageType,
                                          PromiseRejected(STORAGE_NOT_SUPPORTED))
            /\ UNCHANGED <<items, written>>
    /\ UNCHANGED _localStorage

deleteDataFromStorage(isArray, key, storageType) ==
    /\ IF storageType = LOCAL_STORAGE /\ Truthy(_localStorage)
       THEN /\ items' = DeleteEach(items, key, 1)
            /\ written' = [k \in StorageKeys |->
                              IF \E i \in 1..Len(key) : key[i] = k
                              THEN NotWritten ELSE written[k]]
            /\ lastStorage' = StorageCall("delete", isArray, key, <<>>, storageType,
                                          PromiseResolved(<<>>))
       ELSE /\ lastStorage' = StorageCall("delete", isArray, key, <<>>, storageType,
                                          PromiseRejected(STORAGE_NOT_SUPPORTED))
            /\ UNCHANGED <<items, written>>
    /\ UNCHANGED _localStorage

(***************************************************************************)
(* The capabilities a bridge does not support unless it overrides them.    *)
(***************************************************************************)
\* the bare contract and the adapter that extends it
Bridges == {"PlatformBridgeBase", "PlayWeb3"}
\* the members PlayWeb3 defines itself
PlayWeb3Overrides == {"platformId", "isExternalLinksAllowed"}
\* a bridge runs PlatformBridgeBase's member unless its class defines its own
Inherits(bridge, member) == bridge = "PlatformBridgeBase" \/ member \notin PlayWeb3Overrides

PromiseRejectResolves == [outcome |-> "resolved", reason |-> NoArg]

\* Promise.reject(): a future rejected without a reason
Promise_reject == [outcome |-> "rejected", reason |-> "undefined"]

\* the support flag getters of PlatformBridgeBase and what each returns
SupportFlags ==
    [isPlayerAuthorizationSupported |-> FALSE,
     isInviteFriendsSupported |-> FALSE,
     isJoinCommunitySupported |-> FALSE,
     isShareSupported |-> FALSE,
     isCreatePostSupported |-> FALSE,
     isAddToHomeScreenSupported |-> FALSE,
     isAddToFavoritesSupported |-> FALSE,
     isRateSupported |-> FALSE,
     isLeaderboardSupported |-> FALSE,
     isLeaderboardNativePopupSupported |-> FALSE,
     isLeaderboardSetScoreSupported |-> FALSE,
     isLeaderboardGetScoreSupported |-> FALSE,
     isLeaderboardGetEntriesSupported |-> FALSE,
     isPaymentsSupported |-> FALSE,
     isRemoteConfigSupported |-> FALSE]

\* the action methods of PlatformBridgeBase and what each returns
Methods ==
    [authorizePlayer |-> Promise_reject,
     inviteFriends |-> Promise_reject,
     joinCommunity |-> Promise_reject,
     share |-> Promise_reject,
     createPost |-> Promise_reject,
     addToHomeScreen |-> Promise_reject,
     addToFavorites |-> Promise_reject,
     rate |-> Promise_reject,
     setLeaderboardScore |-> Promise_reject,
     getLeaderboardScore |-> Promise_reject,
     getLeaderboardEntries |-> Promise_reject,
     showLeaderboardNativePopup |-> Promise_reject,
     purchase |-> Promise_reject,
     getPaymentsPurchases |-> Promise_reject,
     getPaymentsCatalog |-> Promise_reject,
     consumePurchase |-> Promise_reject,
     getRemoteConfig |-> Promise_reject]

CapabilityMethods == DOMAIN Methods

\* the body of a method of PlatformBridgeBase
MethodBody(method) == Methods[method]

\* the support flag of the capability a method belongs to
SupportFlag(method) ==
    CASE method = "authorizePlayer" -> SupportFlags.isPlayerAuthorizationSupported
      [] method = "inviteFriends" -> SupportFlags.isInviteFriendsSupported
      [] method = "joinCommunity" -> SupportFlags.isJoinCommunitySupported
      [] method = "share" -> SupportFlags.isShareSupported
      [] method = "createPost" -> SupportFlags.isCreatePostSupported
      [] method = "addToHomeScreen" -> SupportFlags.isAddToHomeScreenSupported
      [] method = "addToFavorites" -> SupportFlags.isAddToFavoritesSupported
      [] method = "rate" -> SupportFlags.isRateSupported
      [] method = "setLeaderboardScore" -> SupportFlags.isLeaderboardSetScoreSupported
      [] method = "getLeaderboardScore" -> SupportFlags.isLeaderboardGetScoreSupported
      [] method = "getLeaderboardEntries" -> SupportFlags.isLeaderboardGetEntriesSupported
      [] method = "showLeaderboardNativePopup" -> SupportFlags.isLeaderboardNativePopupSupported
      [] method = "purchase" -> SupportFlags.isPaymentsSupported
      [] method = "getPaymentsPurchases" -> SupportFlags.isPaymentsSupported
      [] method = "getPaymentsCatalog" -> SupportFlags.isPaymentsSupported
      [] method = "consumePurchase" -> SupportFlags.isPaymentsSupported
      [] method = "getRemoteConfig" -> SupportFlags.isRemoteConfigSupported

NoReturn == [bridge |-> "none", method |-> "none", supported |-> FALSE, outcome |-> "none"]

\* bridge.method(): the call runs the inherited body, which touches no field
CallCapability(bridge, method) ==
    /\ Inherits(bridge, method)
    /\ lastReturn' = [bridge |-> bridge, method |-> method, supported |-> SupportFlag(method),
                      outcome |-> MethodBody(method).outcome]
    /\ UNCHANGED <<registryVars, adVars, visibilityVars, channelVars, _localStorage, items,
                   navigator>>

(***************************************************************************)
(* The deviceType getter.  A user-agent string is a sequence of tokens;    *)
(* a pattern word occurs in the string when it occurs in one of them.      *)
(***************************************************************************)
\* DEVICE_TYPE.*
MOBILE == "mobile"
TABLET == "tablet"
DESKTOP == "desktop"

\* the tokens user-agent strings are made of, as the browser spells them
UserAgentTokens ==
    {"Android", "webOS", "iPhone", "iPod", "BlackBerry", "IEMobile", "Opera Mini",
     "iPad", "Tablet", "Kindle", "PlayBook", "Silk", "Puffin",
     "Windows", "Phone", "Touch", "Mobile", "IP", "Mozilla"}

UserAgents == UNION {[1..n -> UserAgentTokens] : n \in 0..MaxTokens}

\* navigator.userAgent is a string (the empty one included) or is not defined
Navigators ==
    {[hasUserAgent |-> TRUE, userAgent |-> ua] : ua \in UserAgents}
        \cup {[hasUserAgent |-> FALSE, userAgent |-> <<>>]}

\* the navigator of a desktop browser
DesktopNavigator == [hasUserAgent |-> TRUE, userAgent |-> <<"Mozilla">>]

\* String.prototype.toLowerCase, token by token
toLowerCase(token) ==
    CASE token = "Android" -> "android"
      [] token = "webOS" -> "webos"
      [] token = "iPhone" -> "iphone"
      [] token = "iPod" -> "ipod"
      [] token = "BlackBerry" -> "blackberry"
      [] token = "IEMobile" -> "iemobile"
      [] token = "Opera Mini" -> "opera mini"
      [] token = "iPad" -> "ipad"
      [] token = "Tablet" -> "tablet"
      [] token = "Kindle" -> "kindle"
      [] token = "PlayBook" -> "playbook"
      [] token = "Silk" -> "silk"
      [] token = "Puffin" -> "puffin"
      [] token = "Windows" -> "windows"
      [] token = "Phone" -> "phone"
      [] token = "Touch" -> "touch"
      [] token = "Mobile" -> "mobile"
      [] token = "IP" -> "ip"
      [] token = "Mozilla" -> "mozilla"
      [] OTHER -> token

\* the literal word occurs in the token, letter case respected
Occurs(word, token) ==
    \/ token = word
    \/ word = "phone" /\ token = "iphone"
    \/ word = "mobile" /\ token = "iemobile"

\* /word/.test(string)
Test(word, string) == \E i \in 1..Len(string) : Occurs(word, string[i])

\* /word/i.test(string)
TestIgnoreCase(word, string) ==
    \E i \in 1..Len(string) : Occurs(toLowerCase(word), toLowerCase(string[i]))

\* /word(?!.*not)/.test(string): an occurrence of word that no occurrence of not follows
TestNotFollowed(word, not, string) ==
    \E i \in 1..Len(string) :
        /\ Occurs(word, string[i])
        /\ \A j \in (i + 1)..Len(string) : ~Occurs(not, string[j])

\* /(windows(?!.*phone)(.*touch))/.test(string)
TestWindowsTouch(string) ==
    \E i \in 1..Len(string) :
        /\ Occurs("windows", string[i])
        /\ \A j \in (i + 1)..Len(string) : ~Occurs("phone", string[j])
        /\ \E j \in (i + 1)..Len(string) : Occurs("touch", string[j])

\* /android|webos|iphone|ipod|blackberry|iemobile|opera mini/i
MobilePattern(string) ==
    \E word \in {"android", "webos", "iphone", "ipod", "blackberry", "iemobile", "opera mini"} :
        TestIgnoreCase(word, string)

\* /ipad|tablet|(android(?!.*mobile))|(windows(?!.*phone)(.*touch))|kindle|playbook|silk|
\*  (puffin(?!.*(IP|AP|WP)))/
TabletPattern(string) ==
    \/ \E word \in {"ipad", "tablet", "kindle", "playbook", "silk"} : Test(word, string)
    \/ TestNotFollowed("android", "mobile", string)
    \/ TestWindowsTouch(string)
    \/ \E i \in 1..Len(string) :
          /\ Occurs("puffin", string[i])
          /\ \A j \in (i + 1)..Len(string) :
                \A word \in {"IP", "AP", "WP"} : ~Occurs(word, string[j])

deviceTypeTabletFirst(nav) ==
    IF nav.hasUserAgent /\ nav.userAgent # <<>>
    THEN LET userAgent == [i \in 1..Len(nav.userAgent) |-> toLowerCase(nav.userAgent[i])]
         IN  IF TabletPattern(userAgent) THEN TABLET
             ELSE IF MobilePattern(userAgent) THEN MOBILE
             ELSE DESKTOP
    ELSE DESKTOP

\* get deviceType: navigator.userAgent is falsy when it is not defined or empty
deviceType(nav) ==
    IF nav.hasUserAgent /\ nav.userAgent # <<>>
    THEN LET userAgent == [i \in 1..Len(nav.userAgent) |-> toLowerCase(nav.userAgent[i])]
         IN  IF MobilePattern(userAgent) THEN MOBILE
             ELSE IF TabletPattern(userAgent) THEN TABLET
             ELSE DESKTOP
    ELSE DESKTOP

\* the state after construction, in a visible document
Init ==
    /\ promiseDecorators = [k \in Keys |-> Undefined]
    /\ promises = [p \in PromiseIds |-> NotConstructed]
    /\ nextId = 1
    /\ createdFor = [p \in PromiseIds |-> NoArg]
    /\ supersededBy = [p \in PromiseIds |-> Undefined]
    /\ settleCalls = [p \in PromiseIds |-> 0]
    /\ lastOp = [k \in Keys |-> "none"]
    /\ lastCreated = [k \in Keys |-> Undefined]
    /\ lastEffect = [k \in Keys |-> "none"]
    /\ lastCall = NoCall
    /\ lastAdCall = NoAdCall
    /\ _interstitialState = Null
    /\ _rewardedState = Null
    /\ _bannerState = Null
    /\ events = <<>>
    /\ lastEmit = NoEmit
    /\ lastMethod = "none"
    /\ documentVisibility = "visible"
    /\ _visibilityState = VisibilityOf(documentVisibility)
    /\ listeners = [name \in ChannelNames |-> <<>>]
    /\ registrations = [name \in ChannelNames |-> <<>>]
    /\ pass = NoPass
    /\ _localStorage = StorageObject
    /\ items = EmptyStore
    /\ written = [k \in StorageKeys |-> NotWritten]
    /\ lastStorage = NoStorageCall
    /\ lastReturn = NoReturn
    /\ navigator = DesktopNavigator

\* what a registry call leaves alone besides the ad state
RegistryFrame ==
    lastEmit' = NoEmit /\ lastMethod' = "none"
        /\ UNCHANGED <<visibilityVars, channelVars, storageVars, navigator>> /\ lastReturn' = NoReturn

\* what a direct call of an ad state setter leaves alone besides the registry
AdFrame ==
    lastMethod' = "none" /\ UNCHANGED <<visibilityVars, channelVars, storageVars, navigator>>
        /\ lastReturn' = NoReturn

Create == (\E actionName \in Keys : _createPromiseDecorator(actionName)) /\ RegistryFrame

Resolve == (\E id \in Keys, data \in Payloads : \E origin \in Origins(id) :
               _resolvePromiseDecorator(id, data, origin)) /\ RegistryFrame

Reject == (\E id \in Keys, error \in Payloads : \E origin \in Origins(id) :
              _rejectPromiseDecorator(id, error, origin)) /\ RegistryFrame

Next == Create \/ Resolve \/ Reject

Spec == Init /\ [][Next]_vars

SetInterstitial == (\E state \in AdStates : _setInterstitialState(state)) /\ AdFrame

SetRewarded == (\E state \in AdStates : _setRewardedState(state)) /\ AdFrame

SetBanner == (\E state \in AdStates : _setBannerState(state)) /\ AdFrame

NextAds == SetInterstitial \/ SetRewarded \/ SetBanner

SpecAds == Init /\ [][NextAds]_vars

\* the default ad methods, called between direct setter calls
ShowBanner ==
    showBanner /\ lastMethod' = "showBanner"
        /\ UNCHANGED <<visibilityVars, channelVars, storageVars, navigator>> /\ lastReturn' = NoReturn

HideBanner ==
    hideBanner /\ lastMethod' = "hideBanner"
        /\ UNCHANGED <<visibilityVars, channelVars, storageVars, navigator>> /\ lastReturn' = NoReturn

ShowInterstitial ==
    showInterstitial /\ lastMethod' = "showInterstitial"
        /\ UNCHANGED <<visibilityVars, channelVars, storageVars, navigator>> /\ lastReturn' = NoReturn

ShowRewarded ==
    showRewarded /\ lastMethod' = "showRewarded"
        /\ UNCHANGED <<visibilityVars, channelVars, storageVars, navigator>> /\ lastReturn' = NoReturn

NextShow == NextAds \/ ShowBanner \/ HideBanner \/ ShowInterstitial \/ ShowRewarded

SpecShow == Init /\ [][NextShow]_vars

\* the state after construction, in a document of any visibility
InitVisibility ==
    /\ promiseDecorators = [k \in Keys |-> Undefined]
    /\ promises = [p \in PromiseIds |-> NotConstructed]
    /\ nextId = 1
    /\ createdFor = [p \in PromiseIds |-> NoArg]
    /\ supersededBy = [p \in PromiseIds |-> Undefined]
    /\ settleCalls = [p \in PromiseIds |-> 0]
    /\ lastOp = [k \in Keys |-> "none"]
    /\ lastCreated = [k \in Keys |-> Undefined]
    /\ lastEffect = [k \in Keys |-> "none"]
    /\ lastCall = NoCall
    /\ lastAdCall = NoAdCall
    /\ _interstitialState = Null
    /\ _rewardedState = Null
    /\ _bannerState = Null
    /\ events = <<>>
    /\ lastEmit = NoEmit
    /\ lastMethod = "none"
    /\ documentVisibility \in DocumentVisibilityStates
    /\ _visibilityState = VisibilityOf(documentVisibility)
    /\ listeners = [name \in ChannelNames |-> <<>>]
    /\ registrations = [name \in ChannelNames |-> <<>>]
    /\ pass = NoPass
    /\ _localStorage = StorageObject
    /\ items = EmptyStore
    /\ written = [k \in StorageKeys |-> NotWritten]
    /\ lastStorage = NoStorageCall
    /\ lastReturn = NoReturn
    /\ navigator = DesktopNavigator

VisibilityChange ==
    (\E visibilityState \in DocumentVisibilityStates : OnVisibilityChange(visibilityState))
        /\ lastMethod' = "none" /\ UNCHANGED <<channelVars, storageVars, navigator>>
        /\ lastReturn' = NoReturn

\* visibility changes while operations are begun
NextVisibility == VisibilityChange \/ Create

SpecVisibility == InitVisibility /\ [][NextVisibility]_vars

\* the ad methods and setters on a bridge constructed in a document of any visibility
SpecShowAnyVisibility == InitVisibility /\ [][NextShow]_vars

\* what a call on the event channel leaves alone
ChannelFrame ==
    /\ lastCall' = NoCall
    /\ lastAdCall' = NoAdCall
    /\ lastEmit' = NoEmit
    /\ lastMethod' = "none"
    /\ UNCHANGED <<registryVars, _interstitialState, _rewardedState, _bannerState,
                   visibilityVars, storageVars, navigator>>
    /\ lastReturn' = NoReturn

ChannelOnCall == (\E name \in ChannelNames, handler \in Handlers : On(name, handler))
                    /\ UNCHANGED events /\ ChannelFrame

ChannelOffCall == (\E name \in ChannelNames, handler \in Handlers : Off(name, handler))
                     /\ UNCHANGED events /\ ChannelFrame

ChannelEmitCall == (\E name \in ChannelNames : EmitBegin(name, FAILED)) /\ ChannelFrame

HandlerRuns ==
    (\/ InvokePlain
     \/ \E name \in ChannelNames, handler \in Handlers : InvokeRegistering(name, handler)
     \/ \E name \in ChannelNames, handler \in Handlers : InvokeRemoving(name, handler))
        /\ ChannelFrame

ChannelEmitReturn == EmitReturn /\ ChannelFrame

NextChannel ==
    ChannelOnCall \/ ChannelOffCall \/ ChannelEmitCall \/ HandlerRuns \/ ChannelEmitReturn

SpecChannel == Init /\ [][NextChannel]_vars

\* visibility changes between ad state setter calls
NextEmit == NextAds \/ VisibilityChange

SpecEmit == InitVisibility /\ [][NextEmit]_vars

\* the state after construction, whatever window.localStorage was
InitStorage ==
    /\ promiseDecorators = [k \in Keys |-> Undefined]
    /\ promises = [p \in PromiseIds |-> NotConstructed]
    /\ nextId = 1
    /\ createdFor = [p \in PromiseIds |-> NoArg]
    /\ supersededBy = [p \in PromiseIds |-> Undefined]
    /\ settleCalls = [p \in PromiseIds |-> 0]
    /\ lastOp = [k \in Keys |-> "none"]
    /\ lastCreated = [k \in Keys |-> Undefined]
    /\ lastEffect = [k \in Keys |-> "none"]
    /\ lastCall = NoCall
    /\ lastAdCall = NoAdCall
    /\ _interstitialState = Null
    /\ _rewardedState = Null
    /\ _bannerState = Null
    /\ events = <<>>
    /\ lastEmit = NoEmit
    /\ lastMethod = "none"
    /\ documentVisibility = "visible"
    /\ _visibilityState = VisibilityOf(documentVisibility)
    /\ listeners = [name \in ChannelNames |-> <<>>]
    /\ registrations = [name \in ChannelNames |-> <<>>]
    /\ pass = NoPass
    /\ _localStorage \in LocalStorageHandles
    /\ items \in StoredBefore
    /\ written = [k \in StorageKeys |-> NotWritten]
    /\ lastStorage = NoStorageCall
    /\ lastReturn = NoReturn
    /\ navigator = DesktopNavigator

\* what a storage call leaves alone
StorageFrame ==
    /\ lastCall' = NoCall
    /\ lastAdCall' = NoAdCall
    /\ lastEmit' = NoEmit
    /\ lastMethod' = "none"
    /\ lastReturn' = NoReturn
    /\ UNCHANGED <<registryVars, adVars, visibilityVars, channelVars, navigator>>

\* the key lists of the batch calls
KeyLists == UNION {[1..n -> StorageKeys] : n \in 0..MaxBatch}

IsStorageSupported ==
    /\ \E storageType \in StorageTypes :
          lastStorage' = [NoStorageCall EXCEPT !.op = "isStorageSupported",
                                               !.storageType = storageType,
                                               !.outcome = "returned",
                                               !.supported = isStorageSupported(storageType)]
    /\ UNCHANGED <<_localStorage, items, written>>
    /\ StorageFrame

GetData ==
    /\ \E storageType \in StorageTypes :
          \/ \E key \in StorageKeys : getDataFromStorage(FALSE, <<key>>, storageType)
          \/ \E key \in KeyLists : getDataFromStorage(TRUE, key, storageType)
    /\ StorageFrame

SetData ==
    /\ \E storageType \in StorageTypes :
          \/ \E key \in StorageKeys, value \in StorableValues :
                setDataToStorage(FALSE, <<key>>, <<value>>, storageType)
          \/ \E key \in KeyLists : \E value \in [1..Len(key) -> StorableValues] :
                setDataToStorage(TRUE, key, value, storageType)
    /\ StorageFrame

DeleteData ==
    /\ \E storageType \in StorageTypes :
          \/ \E key \in StorageKeys : deleteDataFromStorage(FALSE, <<key>>, storageType)
          \/ \E key \in KeyLists : deleteDataFromStorage(TRUE, key, storageType)
    /\ StorageFrame

NextStorage == IsStorageSupported \/ GetData \/ SetData \/ DeleteData

SpecStorage == InitStorage /\ [][NextStorage]_vars

\* a call of a capability method, on either bridge
Capability ==
    /\ \E bridge \in Bridges, method \in CapabilityMethods : CallCapability(bridge, method)
    /\ lastCall' = NoCall
    /\ lastAdCall' = NoAdCall
    /\ lastEmit' = NoEmit
    /\ lastMethod' = "none"
    /\ UNCHANGED <<written, lastStorage>>

\* capability methods called while operations are begun and the banner fails to show
NextCapabilities == Capability \/ Create \/ ShowBanner

SpecCapabilities == Init /\ [][NextCapabilities]_vars

\* the state after construction, in a browser of any user agent
InitDevice ==
    /\ promiseDecorators = [k \in Keys |-> Undefined]
    /\ promises = [p \in PromiseIds |-> NotConstructed]
    /\ nextId = 1
    /\ createdFor = [p \in PromiseIds |-> NoArg]
    /\ supersededBy = [p \in PromiseIds |-> Undefined]
    /\ settleCalls = [p \in PromiseIds |-> 0]
    /\ lastOp = [k \in Keys |-> "none"]
    /\ lastCreated = [k \in Keys |-> Undefined]
    /\ lastEffect = [k \in Keys |-> "none"]
    /\ lastCall = NoCall
    /\ lastAdCall = NoAdCall
    /\ _interstitialState = Null
    /\ _rewardedState = Null
    /\ _bannerState = Null
    /\ events = <<>>
    /\ lastEmit = NoEmit
    /\ lastMethod = "none"
    /\ documentVisibility = "visible"
    /\ _visibilityState = VisibilityOf(documentVisibility)
    /\ listeners = [name \in ChannelNames |-> <<>>]
    /\ registrations = [name \in ChannelNames |-> <<>>]
    /\ pass = NoPass
    /\ _localStorage = StorageObject
    /\ items = EmptyStore
    /\ written = [k \in StorageKeys |-> NotWritten]
    /\ lastStorage = NoStorageCall
    /\ lastReturn = NoReturn
    /\ navigator \in Navigators

\* bridge.deviceType is read
DeviceType ==
    /\ lastReturn' = [bridge |-> "PlatformBridgeBase", method |-> "deviceType",
                      supported |-> TRUE, outcome |-> deviceType(navigator)]
    /\ lastCall' = NoCall
    /\ lastAdCall' = NoAdCall
    /\ lastEmit' = NoEmit
    /\ lastMethod' = "none"
    /\ UNCHANGED <<registryVars, adVars, visibilityVars, channelVars, storageVars, navigator>>

NextDevice == DeviceType

SpecDevice == InitDevice /\ [][NextDevice]_vars

\* the operations begun, the operations settled, the events emitted and the keys stored so far
Work ==
    (nextId - 1) + Cardinality({p \in PromiseIds : settleCalls[p] > 0})
                 + Len(events) + Cardinality(DOMAIN items)

FrameBudget == Work < MaxWork

\* native callbacks of the operation that is the entry: _resolvePromiseDecorator and
\* _rejectPromiseDecorator
FrameSettle ==
    FrameBudget /\ (\E id \in Keys :
        \/ _resolvePromiseDecorator(id, "a", Undefined)
        \/ _rejectPromiseDecorator(id, "b", Undefined)) /\ RegistryFrame

\* single-key storage calls on LOCAL_STORAGE
FrameStorage ==
    /\ \E key \in StorageKeys :
          \/ FrameBudget /\ \E value \in StorableValues :
                setDataToStorage(FALSE, <<key>>, <<value>>, LOCAL_STORAGE)
          \/ getDataFromStorage(FALSE, <<key>>, LOCAL_STORAGE)
          \/ deleteDataFromStorage(FALSE, <<key>>, LOCAL_STORAGE)
    /\ StorageFrame

\* registry calls mixed with ad, visibility and storage calls
NextFrame ==
    \/ FrameBudget /\ Create
    \/ FrameSettle
    \/ FrameBudget /\ SetBanner
    \/ FrameBudget /\ HideBanner
    \/ FrameBudget /\ VisibilityChange
    \/ FrameStorage

SpecFrame == Init /\ [][NextFrame]_vars

TypeOK ==
    /\ promiseDecorators \in [Keys -> PromiseIds \cup {Undefined}]
    /\ nextId \in 1..(MaxOps + 1)
    /\ \A p \in PromiseIds : promises[p].status \in {"none", "pending", "fulfilled", "rejected"}

(***************************************************************************)
(* Properties of the registry.                                             *)
(***************************************************************************)
SettleOps == {"resolve", "reject"}

Constructed == {p \in PromiseIds : p < nextId}

\* a step is a call of op on action name K with payload v
Calls(op, K, v) == lastCall'.op = op /\ lastCall'.key = K /\ lastCall'.arg = v

\* C1: _createPromiseDecorator(K) directly followed (on K) by _resolvePromiseDecorator(K, v)
\* fulfils the awaitable that create returned with v, changes no other awaitable, and
\* leaves K absent: _getPromiseDecorator(K) then returns undefined.
C1_CreateThenResolve ==
    [][\A K \in Keys, v \in Payloads :
          (Calls("resolve", K, v) /\ lastOp[K] = "create") =>
              /\ promises[lastCreated[K]].status = "pending"
              /\ promises' = [promises EXCEPT ![lastCreated[K]] =
                                  [status |-> "fulfilled", value |-> v]]
              /\ lastCall'.settled = {lastCreated[K]}
              /\ _getPromiseDecorator(K)' = Undefined
      ]_vars

C1_Witness ==
    /\ lastCall.op = "resolve"
    /\ lastCall.settled = {lastCreated[lastCall.key]}
    /\ promises[lastCreated[lastCall.key]] = [status |-> "fulfilled", value |-> lastCall.arg]
    /\ _getPromiseDecorator(lastCall.key) = Undefined
    /\ \E p \in Constructed : promises[p].status = "pending"

\* C2: when _createPromiseDecorator(K) is called twice with no settle call on K in between,
\* the second call's decorator takes the entry, the awaitable of the first call is never
\* fulfilled or rejected afterwards, and a settle call on K only ever settles the awaitable
\* returned by the most recent create on K.
C2_SupersededNeverSettles ==
    /\ \A p \in PromiseIds :
          supersededBy[p] # Undefined =>
              /\ promises[p].status = "pending"
              /\ settleCalls[p] = 0
              /\ _getPromiseDecorator(createdFor[p]) # p
    /\ lastCall.op \in SettleOps => lastCall.settled \subseteq {lastCreated[lastCall.key]}
    /\ lastCall.op = "create" => _getPromiseDecorator(lastCall.key) = lastCall.ret

C2_Witness ==
    \E p \in Constructed :
        /\ supersededBy[p] # Undefined
        /\ promises[p].status = "pending"
        /\ promises[supersededBy[p]].status \in {"fulfilled", "rejected"}
        /\ lastCall.op \in SettleOps
        /\ lastCall.key = createdFor[p]
        /\ lastCall.before = Undefined

\* C3: after a create on K only the first settle call on K has an effect; further settle
\* calls on K before the next create change nothing, no decorator has resolve()/reject()
\* invoked more than once, and a settled awaitable keeps the outcome of that first call.
C3_FirstSettleWins ==
    /\ [](\A p \in PromiseIds : settleCalls[p] <= 1)
    /\ [][\A K \in Keys :
             /\ (lastCall'.op \in SettleOps /\ lastCall'.key = K /\ lastOp[K] \in SettleOps) =>
                    /\ UNCHANGED <<promiseDecorators, promises, settleCalls>>
                    /\ lastCall'.settled = {}
                    /\ ~lastCall'.threw
             /\ (lastCall'.op \in SettleOps /\ lastCall'.key = K /\ lastOp[K] = "create") =>
                    /\ promises'[lastCreated[K]].status =
                           (IF lastCall'.op = "resolve" THEN "fulfilled" ELSE "rejected")
                    /\ promises'[lastCreated[K]].value = lastCall'.arg
                    /\ settleCalls'[lastCreated[K]] = 1
         ]_vars
    /\ [][\A p \in PromiseIds :
             promises[p].status \in {"fulfilled", "rejected"} => promises'[p] = promises[p]
         ]_vars

C3_Witness ==
    /\ lastCall.op = "reject"
    /\ lastEffect[lastCall.key] = "settle"
    /\ lastCall.before = Undefined
    /\ lastCall.settled = {}
    /\ promises[lastCreated[lastCall.key]].status = "fulfilled"
    /\ promises[lastCreated[lastCall.key]].value # lastCall.arg
    /\ settleCalls[lastCreated[lastCall.key]] = 1

\* C4: a settle call made by the native callback of an operation whose registry entry was
\* already cleared or overwritten settles no awaitable and leaves the registry unchanged.
C4_LateCallbackIsNoOp ==
    [][(lastCall'.op \in SettleOps /\ lastCall'.late) =>
          /\ lastCall'.settled = {}
          /\ UNCHANGED <<promiseDecorators, promises>>
      ]_vars

\* C5: a settle call on an action name with no entry in the registry does not throw,
\* settles no awaitable and changes neither the registry nor any other state of the bridge.
C5_SettleWithoutEntry ==
    [][\A K \in Keys :
          (lastCall'.op \in SettleOps /\ lastCall'.key = K /\ promiseDecorators[K] = Undefined) =>
              /\ ~lastCall'.threw
              /\ lastCall'.settled = {}
              /\ UNCHANGED <<promiseDecorators, promises, settleCalls, nextId, adVars>>
      ]_vars

C5_Witness ==
    /\ lastCall.op = "reject"
    /\ lastCall.before = Undefined
    /\ lastCreated[lastCall.key] = Undefined
    /\ ~lastCall.threw
    /\ \E K \in Keys : promiseDecorators[K] # Undefined

\* C6: _createPromiseDecorator(K) directly followed (on K) by _rejectPromiseDecorator(K, e)
\* rejects the awaitable that create returned with exactly e, changes no other awaitable,
\* and removes the entry of K: _getPromiseDecorator(K) then returns undefined.
C6_CreateThenReject ==
    [][\A K \in Keys, e \in Payloads :
          (Calls("reject", K, e) /\ lastOp[K] = "create") =>
              /\ promises[lastCreated[K]].status = "pending"
              /\ promises' = [promises EXCEPT ![lastCreated[K]] =
                                  [status |-> "rejected", value |-> e]]
              /\ _getPromiseDecorator(K)' = Undefined
      ]_vars

C6_Witness ==
    /\ lastCall.op = "reject"
    /\ lastCall.settled = {lastCreated[lastCall.key]}
    /\ promises[lastCreated[lastCall.key]] = [status |-> "rejected", value |-> lastCall.arg]
    /\ _getPromiseDecorator(lastCall.key) = Undefined

\* C7: whenever the last call that changed the registry entry of K was a settlement,
\* K has no entry; this lasts until a create on K.
C7_AbsentAfterSettlement ==
    \A K \in Keys : lastEffect[K] = "settle" => _getPromiseDecorator(K) = Undefined

C7_Witness ==
    \E K \in Keys :
        /\ lastEffect[K] = "settle"
        /\ _getPromiseDecorator(K) = Undefined
        /\ lastCall.op = "create"
        /\ lastCall.key # K

\* an awaitable that some settle call would settle
Settleable(p) ==
    /\ promises[p].status = "pending"
    /\ \E id \in Keys : Pending(promiseDecorators, id) /\ promiseDecorators[id] = p

\* C8: for every action name K at most one of the awaitables created for K can still be
\* settled by a settle call, and the entry of K, when present, is that awaitable:
\* a pending operation created for K.
C8_AtMostOnePending ==
    \A K \in Keys :
        /\ Cardinality({p \in Constructed : createdFor[p] = K /\ Settleable(p)}) <= 1
        /\ promiseDecorators[K] # Undefined =>
              /\ promiseDecorators[K] \in Constructed
              /\ createdFor[promiseDecorators[K]] = K
              /\ promises[promiseDecorators[K]].status = "pending"
        /\ \A p \in Constructed :
              (createdFor[p] = K /\ Settleable(p)) => promiseDecorators[K] = p

C8_Witness ==
    \E K \in Keys :
        /\ Cardinality({p \in Constructed : createdFor[p] = K /\ promises[p].status = "pending"}) >= 2
        /\ Cardinality({p \in Constructed : createdFor[p] = K /\ Settleable(p)}) = 1

\* C9: the entry of K and its awaitable change only in a create or settle call on K:
\* nothing else (no timeout, no cancellation, no call on another name) settles or removes
\* a pending operation, and _getPromiseDecorator(K) keeps returning the same decorator.
C9_NoTimeout ==
    [][\A K \in Keys :
          (/\ promiseDecorators[K] # Undefined
           /\ ~(lastCall'.key = K /\ lastCall'.op \in {"create", "resolve", "reject"})) =>
              /\ _getPromiseDecorator(K)' = _getPromiseDecorator(K)
              /\ promises'[promiseDecorators[K]] = promises[promiseDecorators[K]]
              /\ promises[promiseDecorators[K]].status = "pending"
      ]_vars

C9_Witness ==
    \E K \in Keys :
        /\ promiseDecorators[K] # Undefined
        /\ promises[promiseDecorators[K]].status = "pending"
        /\ lastCall.key # K
        /\ lastCall.op \in SettleOps
        /\ lastCall.settled # {}
        /\ nextId > MaxOps

(***************************************************************************)
(* Properties of the ad state setters.                                     *)
(***************************************************************************)
\* what a setter call with state s must do to its state field and to the event log
SetterEffect(op, name, current, currentNext, s) ==
    lastAdCall'.op = op /\ lastAdCall'.state = s =>
        IF current # s \/ s = FAILED
        THEN /\ currentNext = s
             /\ events' = Append(events, <<name, s>>)
        ELSE /\ currentNext = current
             /\ events' = events

\* C10: each of the three setters, called with state s, emits exactly one change event of
\* its kind when s differs from the current state or s is FAILED, and otherwise emits
\* nothing and changes nothing.
C10_SetterEmits ==
    [][\A s \in AdStates :
          /\ SetterEffect("_setInterstitialState", INTERSTITIAL_STATE_CHANGED,
                          _interstitialState, _interstitialState', s)
          /\ SetterEffect("_setRewardedState", REWARDED_STATE_CHANGED,
                          _rewardedState, _rewardedState', s)
          /\ SetterEffect("_setBannerState", BANNER_STATE_CHANGED,
                          _bannerState, _bannerState', s)
      ]_vars

C10_Witness ==
    /\ events = << <<INTERSTITIAL_STATE_CHANGED, FAILED>>,
                   <<INTERSTITIAL_STATE_CHANGED, FAILED>>,
                   <<BANNER_STATE_CHANGED, HIDDEN>> >>
    /\ lastAdCall = AdCall("_setBannerState", HIDDEN, HIDDEN, 0)

(***************************************************************************)
(* Properties of the default ad methods, of the emitted events and of the  *)
(* visibility listener.                                                    *)
(***************************************************************************)
\* C11: on a bridge that keeps the default ad methods (PlatformBridgeBase itself, and
\* PlayWeb3, which overrides none of them) every showBanner(), showInterstitial() and
\* showRewarded(), whatever the state before, sets that ad state to FAILED, emits exactly
\* one change event of that kind with payload FAILED and starts no pending operation.
C11_ShowFails ==
    [][/\ lastMethod' = "showBanner" =>
              /\ _bannerState' = FAILED
              /\ events' = Append(events, <<BANNER_STATE_CHANGED, FAILED>>)
              /\ UNCHANGED <<registryVars, _interstitialState, _rewardedState>>
       /\ lastMethod' = "showInterstitial" =>
              /\ _interstitialState' = FAILED
              /\ events' = Append(events, <<INTERSTITIAL_STATE_CHANGED, FAILED>>)
              /\ UNCHANGED <<registryVars, _rewardedState, _bannerState>>
       /\ lastMethod' = "showRewarded" =>
              /\ _rewardedState' = FAILED
              /\ events' = Append(events, <<REWARDED_STATE_CHANGED, FAILED>>)
              /\ UNCHANGED <<registryVars, _interstitialState, _bannerState>>
      ]_vars

C11_Witness ==
    /\ lastMethod = "showBanner"
    /\ lastAdCall.before = FAILED
    /\ _bannerState = FAILED
    /\ events = << <<BANNER_STATE_CHANGED, HIDDEN>>,
                   <<BANNER_STATE_CHANGED, FAILED>>,
                   <<BANNER_STATE_CHANGED, FAILED>> >>

\* the state field behind the getter that belongs to an event name
GetterOf(name) ==
    CASE name = INTERSTITIAL_STATE_CHANGED -> _interstitialState
      [] name = REWARDED_STATE_CHANGED -> _rewardedState
      [] name = BANNER_STATE_CHANGED -> _bannerState
      [] name = VISIBILITY_STATE_CHANGED -> _visibilityState

\* C12: every emitted INTERSTITIAL_, REWARDED_, BANNER_ and VISIBILITY_STATE_CHANGED event
\* carries the new state as payload, and the state is stored before the event is emitted:
\* a handler that reads the getter during the emission gets the payload.
C12_PayloadIsNewState ==
    lastEmit.name # "none" =>
        /\ lastEmit.getter = lastEmit.payload
        /\ lastEmit.payload = GetterOf(lastEmit.name)
        /\ events[Len(events)] = <<lastEmit.name, lastEmit.payload>>
        /\ lastEmit.name # VISIBILITY_STATE_CHANGED => lastEmit.payload = lastAdCall.state
        /\ lastEmit.name = VISIBILITY_STATE_CHANGED =>
              lastEmit.payload \in {VISIBILITY_STATE_VISIBLE, VISIBILITY_STATE_HIDDEN}

C12_Witness ==
    /\ lastEmit.name = VISIBILITY_STATE_CHANGED
    /\ lastEmit.payload = VISIBILITY_STATE_VISIBLE
    /\ lastEmit.getter = VISIBILITY_STATE_VISIBLE
    /\ Len(events) = 3
    /\ events[1] = <<INTERSTITIAL_STATE_CHANGED, FAILED>>
    /\ events[2] = <<VISIBILITY_STATE_CHANGED, VISIBILITY_STATE_HIDDEN>>

\* C13: after construction visibilityState is always VISIBLE or HIDDEN; on every change of
\* the document's visibility the bridge stores VISIBLE if the document reports 'visible'
\* and HIDDEN otherwise and emits exactly one VISIBILITY_STATE_CHANGED event with that
\* state, whatever operations are pending, and without touching them.
C13_VisibilityTracksDocument ==
    /\ [](/\ _visibilityState \in {VISIBILITY_STATE_VISIBLE, VISIBILITY_STATE_HIDDEN}
          /\ _visibilityState = VISIBILITY_STATE_VISIBLE <=> documentVisibility = "visible")
    /\ [][documentVisibility' # documentVisibility =>
              /\ _visibilityState' = (IF documentVisibility' = "visible"
                                      THEN VISIBILITY_STATE_VISIBLE
                                      ELSE VISIBILITY_STATE_HIDDEN)
              /\ events' = Append(events, <<VISIBILITY_STATE_CHANGED, _visibilityState'>>)
              /\ UNCHANGED registryVars
         ]_vars
    /\ [][documentVisibility' = documentVisibility => UNCHANGED <<_visibilityState, events>>]_vars

C13_Witness ==
    /\ documentVisibility = "prerender"
    /\ _visibilityState = VISIBILITY_STATE_HIDDEN
    /\ lastEmit = Emitted(VISIBILITY_STATE_CHANGED, VISIBILITY_STATE_HIDDEN, VISIBILITY_STATE_HIDDEN)
    /\ Len(events) >= 2
    /\ \E K \in Keys : promiseDecorators[K] # Undefined /\ promises[promiseDecorators[K]].status = "pending"

(***************************************************************************)
(* Properties of the event channel.                                        *)
(***************************************************************************)
\* the handlers an emit call has invoked so far
InvokedHandlers(p) == [i \in 1..Len(p.invoked) |-> p.invoked[i][1]]

\* a step in which the emit call in progress returns
EmitReturns == pass # NoPass /\ pass' = NoPass

\* C14: emit(name, payload) invokes the handlers registered for name, and no others,
\* synchronously, one after the other in the order of their registration, each once per
\* registration and with the given payload; all of them have run when emit returns.
C14_EmitInRegistrationOrder ==
    /\ [](pass # NoPass =>
            /\ Len(pass.invoked) = pass.pos
            /\ pass.pos <= Len(pass.expected)
            /\ \A i \in 1..pass.pos : pass.invoked[i] = <<pass.expected[i], pass.payload>>
            /\ events[Len(events)] = <<pass.name, pass.payload>>)
    /\ [][EmitReturns => InvokedHandlers(pass) = pass.expected]_vars
    /\ [](pass = NoPass => listeners = registrations)

C14_Witness ==
    /\ pass.name = BANNER_STATE_CHANGED
    /\ pass.expected = <<"h2", "h1">>
    /\ pass.invoked = << <<"h2", FAILED>>, <<"h1", FAILED>> >>
    /\ listeners[INTERSTITIAL_STATE_CHANGED] = <<"h1", "h2">>
    /\ pass.added = {}
    /\ pass.removed = {}

\* C15: the handlers one emit call invokes are those registered when it began: a handler
\* registered by a handler during the emission is not invoked in that pass, a handler
\* removed during the emission is still invoked in it, and both changes are in force when
\* the next emit begins.
C15_PassIsFixedAtStart ==
    /\ [][EmitReturns =>
             /\ Len(pass.invoked) = Len(pass.expected)
             /\ \A h \in pass.removed \cap Range(pass.expected) : h \in Range(InvokedHandlers(pass))
             /\ \A h \in pass.added \ Range(pass.expected) : h \notin Range(InvokedHandlers(pass))
         ]_vars
    /\ [][(pass = NoPass /\ pass' # NoPass) =>
             /\ pass'.snapshot = registrations[pass'.name]
             /\ pass'.expected = registrations[pass'.name]
         ]_vars
    /\ [](\A name \in ChannelNames : listeners[name] = registrations[name])

C15_Witness ==
    /\ pass.name = INTERSTITIAL_STATE_CHANGED
    /\ pass.expected = <<"h1", "h1">>
    /\ pass.removed = {"h1"}
    /\ pass.added = {"h2"}
    /\ InvokedHandlers(pass) = <<"h1", "h1">>
    /\ listeners[INTERSTITIAL_STATE_CHANGED] = <<"h2">>

(***************************************************************************)
(* Properties of the storage methods.                                      *)
(***************************************************************************)
StorageOps == {"get", "set", "delete"}

\* the storage kind has no store behind it: it is not LOCAL_STORAGE, or the bridge holds
\* no Storage object
NoStoreFor(storageType) == storageType # LOCAL_STORAGE \/ _localStorage # StorageObject

\* C16: getDataFromStorage, setDataToStorage and deleteDataFromStorage called with a kind
\* other than LOCAL_STORAGE, or with LOCAL_STORAGE when the bridge holds no store handle,
\* return a future rejected with STORAGE_NOT_SUPPORTED, do not throw and leave the stored
\* items unchanged; isStorageSupported returns false for exactly those kinds.
C16_UnsupportedStorageRejects ==
    /\ [][(lastStorage'.op \in StorageOps /\ NoStoreFor(lastStorage'.storageType))
            => /\ lastStorage'.outcome = "rejected"
               /\ lastStorage'.reason = STORAGE_NOT_SUPPORTED
               /\ items' = items]_vars
    /\ [](lastStorage.op = "isStorageSupported"
            => (lastStorage.supported = FALSE <=> NoStoreFor(lastStorage.storageType)))

\* C17: a single-key read of a key from LOCAL_STORAGE, after a value was written under
\* that key and the key was neither written nor deleted since, resolves with a value equal
\* to the one written.
C17_StorageRoundTrip ==
    (/\ lastStorage.op = "get"
     /\ ~lastStorage.isArray
     /\ lastStorage.storageType = LOCAL_STORAGE
     /\ written[lastStorage.key[1]] # NotWritten)
        => /\ lastStorage.outcome = "resolved"
           /\ lastStorage.result = <<written[lastStorage.key[1]]>>

\* the text a single-key write of value leaves under its key
StoredText(value) == _setDataToLocalStorage(EmptyStore, "k1", value)["k1"]

\* C18: a batch call on LOCAL_STORAGE resolves and is element-wise in list order: a batch
\* write leaves under every listed key the text of the value at the key's last position
\* and touches no other key, a batch read resolves with as many results as keys, the i-th
\* being what a single-key read of the i-th key returns, and a batch delete removes
\* exactly the listed keys.
C18_BatchIsElementWise ==
    [][(/\ lastStorage'.op \in StorageOps
        /\ lastStorage'.isArray
        /\ lastStorage'.storageType = LOCAL_STORAGE
        /\ _localStorage = StorageObject)
          => LET key == lastStorage'.key
                 value == lastStorage'.value
                 result == lastStorage'.result
                 listed == Range(key)
             IN  /\ lastStorage'.outcome = "resolved"
                 /\ lastStorage'.op = "set"
                      => /\ DOMAIN items' = DOMAIN items \cup listed
                         /\ \A k \in DOMAIN items' :
                               items'[k] = IF k \in listed
                                           THEN StoredText(value[LastIndex(key, k)])
                                           ELSE items[k]
                 /\ lastStorage'.op = "get"
                      => /\ Len(result) = Len(key)
                         /\ \A i \in 1..Len(key) :
                               result[i] = _getDataFromLocalStorage(items, key[i])
                         /\ items' = items
                 /\ lastStorage'.op = "delete"
                      => /\ DOMAIN items' = DOMAIN items \ listed
                         /\ \A k \in DOMAIN items' : items'[k] = items[k]]_vars

\* a batch write listed the same key twice with different values and the later one is stored
C18_Witness ==
    /\ lastStorage.op = "set"
    /\ lastStorage.isArray
    /\ lastStorage.outcome = "resolved"
    /\ lastStorage.key = <<"k1", "k1">>
    /\ lastStorage.value = <<JsString("1"), JsObjectA1>>
    /\ "k1" \in DOMAIN items
    /\ items["k1"] = "{\"a\":1}"

\* C19: a single-key read from LOCAL_STORAGE never fails because of the stored text: it
\* resolves with the parsed value when the text parses, with the text itself when it
\* does not, and with null when the key is not stored.
C19_ReadingNeverFails ==
    (/\ lastStorage.op = "get"
     /\ ~lastStorage.isArray
     /\ lastStorage.storageType = LOCAL_STORAGE
     /\ _localStorage = StorageObject)
        => LET k == lastStorage.key[1]
           IN  /\ lastStorage.outcome = "resolved"
               /\ k \notin DOMAIN items => lastStorage.result = <<JsNull>>
               /\ (k \in DOMAIN items /\ JSONparse(items[k]) # SyntaxError)
                     => lastStorage.result = <<JSONparse(items[k])>>
               /\ (k \in DOMAIN items /\ JSONparse(items[k]) = SyntaxError)
                     => lastStorage.result = <<JsString(items[k])>>

\* a key holding a text that does not parse was read and the text came back
C19_Witness ==
    /\ lastStorage.op = "get"
    /\ ~lastStorage.isArray
    /\ lastStorage.storageType = LOCAL_STORAGE
    /\ lastStorage.key[1] \in DOMAIN items
    /\ items[lastStorage.key[1]] = "abc"
    /\ lastStorage.outcome = "resolved"
    /\ lastStorage.result = <<JsString("abc")>>

(***************************************************************************)
(* Properties of the capability methods.                                   *)
(***************************************************************************)
\* C20: on the bare contract and on PlayWeb3, a call of the action method of a capability
\* whose support flag is false returns a rejected future (it neither throws nor leaves an
\* operation pending), registers no promise decorator, emits no event and changes no
\* field of the bridge.
C20_UnsupportedCapabilityRejects ==
    [][(lastReturn'.method \in CapabilityMethods /\ ~lastReturn'.supported)
          => /\ lastReturn'.outcome = "rejected"
             /\ UNCHANGED <<promiseDecorators, promises, nextId, events>>
             /\ UNCHANGED <<_interstitialState, _rewardedState, _bannerState,
                            _visibilityState, _localStorage, items>>]_vars

\* PlayWeb3's rate() was called while an operation was pending and after an event
C20_Witness ==
    /\ lastReturn.bridge = "PlayWeb3"
    /\ lastReturn.method = "rate"
    /\ ~lastReturn.supported
    /\ lastReturn.outcome = "rejected"
    /\ \E k \in Keys : promiseDecorators[k] # Undefined
    /\ Len(events) > 0

(***************************************************************************)
(* Properties of the deviceType getter.                                    *)
(***************************************************************************)
MobileWords == {"android", "webos", "iphone", "ipod", "blackberry", "iemobile", "opera mini"}

TabletWords == {"ipad", "tablet", "kindle", "playbook", "silk", "puffin"}

\* the user agent holds one of the words, in any letter case
HoldsWord(words, ua) ==
    \E i \in 1..Len(ua) : \E word \in words : Occurs(word, toLowerCase(ua[i]))

\* the user agent holds "windows", later "touch", and no "phone" after that "windows"
HoldsWindowsTouch(ua) ==
    \E i \in 1..Len(ua), k \in 1..Len(ua) :
        /\ i < k
        /\ Occurs("windows", toLowerCase(ua[i]))
        /\ Occurs("touch", toLowerCase(ua[k]))
        /\ \A j \in (i + 1)..Len(ua) : ~Occurs("phone", toLowerCase(ua[j]))

\* C21: deviceType is MOBILE for a user agent holding a mobile word (android, webos,
\* iphone, ipod, blackberry, iemobile, opera mini, in any letter case), else TABLET for one
\* holding a tablet word (ipad, tablet, kindle, playbook, silk, puffin) or windows with
\* touch and without phone, else DESKTOP; DESKTOP also when the user agent is absent or
\* empty.
C21_DeviceTypePrecedence ==
    lastReturn.method = "deviceType"
        => LET ua == navigator.userAgent
               mobile == HoldsWord(MobileWords, ua)
               tablet == HoldsWord(TabletWords, ua) \/ HoldsWindowsTouch(ua)
           IN  /\ mobile => lastReturn.outcome = MOBILE
               /\ (~mobile /\ tablet) => lastReturn.outcome = TABLET
               /\ (~mobile /\ ~tablet) => lastReturn.outcome = DESKTOP
               /\ (~navigator.hasUserAgent \/ ua = <<>>) => lastReturn.outcome = DESKTOP
               /\ HoldsWord({"iphone"}, ua) => lastReturn.outcome = MOBILE
               /\ (HoldsWord({"ipad"}, ua) /\ ~mobile) => lastReturn.outcome = TABLET

\* the device type of a user agent holding both a tablet word and a mobile word was read
C21_Witness ==
    /\ lastReturn.method = "deviceType"
    /\ navigator.userAgent = <<"iPad", "iPhone">>
    /\ lastReturn.outcome = MOBILE

(***************************************************************************)
(* Properties of the three ad states taken together.                       *)
(***************************************************************************)
\* the positions of the events of one name in the log
EventsOf(name) == {i \in 1..Len(events) : events[i][1] = name}

\* the payload of the most recent event of one name, null when there is none
LastPayload(name) ==
    IF EventsOf(name) = {} THEN Null
    ELSE events[CHOOSE i \in EventsOf(name) : \A j \in EventsOf(name) : j <= i][2]

AdEventNames == {INTERSTITIAL_STATE_CHANGED, REWARDED_STATE_CHANGED, BANNER_STATE_CHANGED}

\* C23: for each of the three ad kinds the getter returns the payload of the most recent
\* change event of that kind, and returns null exactly when no change event of that kind
\* was emitted; the first setter call of a kind, whatever the state it sets, emits.
C23_NoSilentAdStateChange ==
    /\ [](\A name \in AdEventNames :
             /\ GetterOf(name) = LastPayload(name)
             /\ GetterOf(name) = Null <=> EventsOf(name) = {})
    /\ [][(lastAdCall'.op # "none" /\ lastAdCall'.before = Null)
             => /\ lastAdCall'.emitted = 1
                /\ Len(events') = Len(events) + 1
                /\ events'[Len(events')][2] = lastAdCall'.state]_vars

\* the first call of the banner setter set LOADING, after the other two kinds had failed
C23_Witness ==
    /\ lastAdCall = AdCall("_setBannerState", "LOADING", Null, 1)
    /\ _bannerState = "LOADING"
    /\ LastPayload(BANNER_STATE_CHANGED) = "LOADING"
    /\ Len(events) = 3
    /\ _interstitialState = FAILED
    /\ _rewardedState = FAILED

\* a step that sets the state of one kind leaves the other two kinds and the visibility
\* state alone and emits at most one event, of that kind
KindStep(op, name, ownNext, other1, other1Next, other2, other2Next) ==
    lastAdCall'.op = op =>
        /\ other1Next = other1
        /\ other2Next = other2
        /\ _visibilityState' = _visibilityState
        /\ events' = events \/ events' = Append(events, <<name, ownNext>>)

\* C24: a call that sets the banner, interstitial or rewarded state (showBanner,
\* hideBanner, showInterstitial and showRewarded included) changes only the state of that
\* kind and emits only that kind's event.  Every showBanner emits FAILED; a hideBanner
\* emits HIDDEN when it is the first call or follows a showBanner, and emits nothing when
\* it follows a hideBanner.
C24_AdKindsIndependent ==
    /\ [][/\ KindStep("_setInterstitialState", INTERSTITIAL_STATE_CHANGED, _interstitialState',
                      _rewardedState, _rewardedState', _bannerState, _bannerState')
          /\ KindStep("_setRewardedState", REWARDED_STATE_CHANGED, _rewardedState',
                      _interstitialState, _interstitialState', _bannerState, _bannerState')
          /\ KindStep("_setBannerState", BANNER_STATE_CHANGED, _bannerState',
                      _interstitialState, _interstitialState', _rewardedState, _rewardedState')
          /\ lastMethod' \in {"showBanner", "hideBanner"} => lastAdCall'.op = "_setBannerState"
          /\ lastMethod' = "showInterstitial" => lastAdCall'.op = "_setInterstitialState"
          /\ lastMethod' = "showRewarded" => lastAdCall'.op = "_setRewardedState"]_vars
    /\ [][lastMethod' = "showBanner"
             => events' = Append(events, <<BANNER_STATE_CHANGED, FAILED>>)]_vars
    /\ [][(lastMethod' = "hideBanner" /\ (lastMethod = "showBanner" \/ events = <<>>))
             => events' = Append(events, <<BANNER_STATE_CHANGED, HIDDEN>>)]_vars
    /\ [][(lastMethod' = "hideBanner" /\ lastMethod = "hideBanner")
             => events' = events]_vars

\* showBanner, hideBanner, showBanner were called in a hidden document after the
\* interstitial had been set, and only banner events followed
C24_Witness ==
    /\ lastMethod = "hideBanner"
    /\ _visibilityState = VISIBILITY_STATE_HIDDEN
    /\ _interstitialState = "LOADING"
    /\ _rewardedState = Null
    /\ _bannerState = HIDDEN
    /\ events = << <<INTERSTITIAL_STATE_CHANGED, "LOADING">>,
                   <<BANNER_STATE_CHANGED, FAILED>>,
                   <<BANNER_STATE_CHANGED, HIDDEN>> >>

(***************************************************************************)
(* The registry and the rest of the bridge leave each other alone.         *)
(***************************************************************************)
\* C22: _createPromiseDecorator(K), _resolvePromiseDecorator(K, .) and
\* _rejectPromiseDecorator(K, .) leave the registry entry of every other key and the
\* promise of every operation begun under another key unchanged, emit no event and change
\* no ad, visibility or storage state; every other call (ad state setters, show and hide
\* methods, storage calls, visibility changes) leaves the registry and every promise
\* unchanged and begins no operation.
C22_RegistryFrame ==
    /\ [][lastCall'.op \in {"create", "resolve", "reject"}
             => /\ \A K \in Keys \ {lastCall'.key} :
                      promiseDecorators'[K] = promiseDecorators[K]
                /\ \A p \in PromiseIds :
                      (p < nextId /\ createdFor[p] # lastCall'.key) => promises'[p] = promises[p]
                /\ UNCHANGED <<events, _interstitialState, _rewardedState, _bannerState>>
                /\ UNCHANGED <<_visibilityState, _localStorage, items>>]_vars
    /\ [][lastCall'.op = "none" => UNCHANGED <<promiseDecorators, promises, nextId>>]_vars

\* an operation was begun under k1 while one was pending under k2 and after an event
C22_Witness ==
    /\ lastCall.op = "create"
    /\ lastCall.key = "k1"
    /\ promiseDecorators["k1"] # Undefined
    /\ promiseDecorators["k2"] # Undefined
    /\ promises[promiseDecorators["k2"]].status = "pending"
    /\ Len(events) > 0

====
